---------------------------- MODULE Spec2Model ----------------------------
(***************************************************************************)
(* Model of vpMbKltTracker (model-based tracker using only KLT points):    *)
(* init(), setPose(), setCameraParameters(), loadConfigFile() and track()  *)
(* with its three stages preTracking(), computeVVS() and postTracking().   *)
(*                                                                         *)
(* Abstractions.                                                           *)
(*  - A pose (vpHomogeneousMatrix) is an element of a finite non-abelian   *)
(*    group of rigid motions (the six symmetries of a triangle, written as *)
(*    permutations of 1..3).  Compose is the matrix product, Inverse the   *)
(*    matrix inverse, IdPose the identity.                                 *)
(*  - The 6-vector v solved from the normal equations is an input of every *)
(*    iteration, drawn from Twists; ExpMap is vpExponentialMap::direct.    *)
(*  - The sum of weighted residuals of an iteration, in units of 0.5e-8    *)
(*    (half the scale of the loop test, so that the truncation of the      *)
(*    test matters), is an input drawn from NormVals.                      *)
(*  - The weights returned by vpRobust::MEstimator are an input: tenths,   *)
(*    from WeightVals, the same for the two rows of a point, at most       *)
(*    MaxLow points down-weighted, each the first or last point of a face. *)
(*  - The rank of the normal equations is an input of every iteration.     *)
(*  - The KLT tracker is an oracle: track() reports a set of identifiers   *)
(*    (it may lose the first or last point of a face in use),              *)
(*    initTracking() detects fresh features.  Face f owns the identifiers  *)
(*    IdsOfFace(f) (the features lying in its polygon).                    *)
(*  - vpMbtKltPolygon and vpMbHiddenFaces (the faces) are not part of the  *)
(*    sources at hand; their operations are modelled from the design       *)
(*    document and are marked as such in the model map.                    *)
(***************************************************************************)
EXTENDS Integers, Sequences, FiniteSets

\* ---------------------------------------------------------------- bounds
\* features initTracking detects at most in the polygon of one face
MaxPts == 4
\* points the M-estimator down-weights at most in one iteration
MaxLow == 1
\* features the KLT tracker loses at most in one frame
MaxLost == 1

\* ------------------------------------------------------ program constants
\* maxIter (200 in the constructor), scaled down
maxIter == 2
\* threshold_outlier = 0.5, in tenths
threshold_outlier == 5
\* track(): if(nbInfos < 4 || nbFaceUsed == 0)
MinInfos == 4
\* minimum number of points of a face (hasEnoughPoints)
minNbPoint == 4
\* vpMath::rad(90), in degrees
DefaultAngle == 90
\* testTracking(): if(nbTotalPoints < 10), scaled down with MaxPts
MinTotalPoints == 7
\* vpBiclops::ndof, the pan and the tilt axis
ndof == 2
\* vpBiclops::speedLimit, in units of half the limit
speedLimit == 2
\* softLimit[i] of the control loop, in units of the limit
softLimit == 1
\* vpRobotBiclops::defaultPositioningVelocity = 10.0
defaultPositioningVelocity == 10
\* setPositioningVelocity(): velocity > 100
MaxPositioningVelocity == 100
\* a double that is not a number
NaN == 999

VARIABLES
  modelInitialised,   \* vpMbTracker::modelInitialised
  cameraInitialised,  \* vpMbTracker::cameraInitialised
  cMo,                \* current pose
  c0Mo,               \* pose at the last initialisation (the anchor)
  ctTc0,              \* incremental pose since the last initialisation
  angleAppears,
  angleDisappears,
  isTracked,          \* face -> BOOLEAN
  isvisible,          \* face -> BOOLEAN
  pts,                \* face -> set of identifiers (its correspondences)
  roiIn,              \* faces the last init() found inside the image
  pc,                 \* position inside track(): idle, vvs, post, reinit
  nbInfos,            \* local of track()
  nbFaceUsed,         \* local of track()
  iter,               \* local of computeVVS()
  normRes,            \* local of computeVVS()
  normRes_1,          \* local of computeVVS()
  w,                  \* the weight vector of track()
  blocks,             \* (face, first row, size) of subR/subJ in the last iteration
  counted,            \* faces counted by the last preTracking
  removed,            \* faces handed to removeOutliers by the last postTracking
  handed,             \* (face, first row, size) of sub_w in the last postTracking
  rankDeficient,      \* J^T J of the last iteration had rank below 6
  lost,               \* identifiers tracker.track() stopped reporting, while
                      \* preTracking is the last stage that ran
  compute_interaction,\* vpMbKltTracker::compute_interaction
  J,                  \* the interaction matrix of computeVVS(): the iteration
                      \* that computed its rows, and how many times they were
                      \* multiplied by the weights since
  R,                  \* the residual vector of computeVVS(), likewise
  exact,              \* the frame in progress has no observation noise: its
                      \* points are the projections at pose ctTc0 * c0Mo
  log,                \* stages entered by the call in progress / last call
  lastOp,             \* last public operation called
  result,             \* how it ended
  poseArg,            \* argument of the last setPose()
  cMoPre,             \* the pose stored when track() was entered
  upd,                \* the pose update of computeVVS() on its own: the solved
                      \* vector v, the incremental pose before and after line
                      \* 320, the anchor and the pose of line 325
  robotState,         \* vpRobot::stateRobot
  positioningVelocity,\* vpRobotBiclops::positioningVelocity
  controlThreadCreated,
  vpShm_mutex,        \* free, or the thread that locked it: main, thread
  vpEndThread_mutex,
  vpMeasure_mutex,
  mpc,                \* position of the main thread: idle, setVelocity (lines
                      \* 977-987), lockEnd (line 504), join, destroy,
                      \* destroyed
  mshm,               \* the copy of the shared memory in setVelocity()
  tpc,                \* position of the control thread: none, init, measure,
                      \* write, loop, check, exited
  tshm,               \* the copy of the shared memory in the control thread
  shm,                \* the shared memory of the controller
  prev_q_dot,         \* locals of the control loop
  q_dot,
  force_halt,
  enable_limit,
  mes_q,
  cmd,                \* the last velocity sent to the controller
  cmdBy,              \* and the thread that sent it
  rop,                \* last operation of vpRobotBiclops called
  rres,               \* how it ended
  rarg,               \* its arguments
  got                 \* the value it returned

trackerVars == <<modelInitialised, cameraInitialised, cMo, c0Mo, ctTc0, angleAppears,
          angleDisappears, isTracked, isvisible, pts, roiIn, pc, nbInfos,
          nbFaceUsed,
          iter, normRes, normRes_1, w, blocks, counted, removed, handed,
          rankDeficient, lost, compute_interaction, J, R, exact, log, lastOp,
          result, poseArg, cMoPre>>

robotVars == <<robotState, positioningVelocity, controlThreadCreated, vpShm_mutex,
               vpEndThread_mutex, vpMeasure_mutex, mpc, mshm, tpc, tshm, shm,
               prev_q_dot, q_dot, force_halt, enable_limit, mes_q, cmd, cmdBy,
               rop, rres, rarg, got>>

vars == <<trackerVars, upd, robotVars>>

\* ----------------------------------------------------------------- poses
Poses == {<<1, 2, 3>>, <<2, 1, 3>>, <<1, 3, 2>>, <<3, 2, 1>>, <<2, 3, 1>>, <<3, 1, 2>>}

IdPose == <<1, 2, 3>>

Compose(a, b) == [i \in 1..3 |-> a[b[i]]]

Inverse(a) == CHOOSE b \in Poses : Compose(a, b) = IdPose

\* the increments the solver returns in the model of track()
Twists == {0, 1}

\* the increments the pose update is applied to on its own: 2 is a vector
\* whose exponential is not its own inverse
TwistInputs == {0, 1, 2}

ExpMap(v) == CASE v = 0 -> <<1, 2, 3>>
               [] v = 1 -> <<2, 1, 3>>
               [] v = 2 -> <<2, 3, 1>>

\* poses an external detector hands to setPose()
SetPoseInputs == {<<2, 3, 1>>}

\* values of normRes, in units of 0.5e-8
NormVals == {0, 1, 2}

WeightVals == {0, 10}

\* ----------------------------------------------------------------- faces
\* the 3D model that is loaded: per face, the angle (degrees) between its
\* normal and the viewing direction when the pose maps the face to direction
\* 1, 2 or 3
ModelFaces == <<[dir |-> 1, angles |-> <<60, 70, 90>>],
                [dir |-> 2, angles |-> <<60, 70, 90>>]>>

FaceRange == 1..Len(ModelFaces)

\* faces.size(): the faces exist once the model is loaded
NbFaces == IF modelInitialised THEN Len(ModelFaces) ELSE 0

IdsOfFace(f) == ((f - 1) * MaxPts + 1)..(f * MaxPts)

\* angle between the normal of face f and the viewing direction at pose P
AngleOf(f, P) == ModelFaces[f].angles[P[ModelFaces[f].dir]]

IsVisibleAt(f, P, alpha) == AngleOf(f, P) < alpha

NbPointsCur(f) == Cardinality(pts[f])

HasEnoughPoints(f) == NbPointsCur(f) >= minNbPoint

Eligible(f) == isTracked[f] /\ HasEnoughPoints(f)

\* J and R before the first iteration has filled them
NoRows == [built |-> 0 - 1, scaled |-> 0]

\* the tracker after its constructor; flag: the value compute_interaction
\* is left with
Constructed(flag) ==
  /\ compute_interaction = flag
  /\ J = NoRows
  /\ R = NoRows
  /\ modelInitialised = FALSE
  /\ cameraInitialised = FALSE
  /\ cMo = IdPose
  /\ c0Mo = IdPose
  /\ ctTc0 = IdPose
  /\ angleAppears = DefaultAngle
  /\ angleDisappears = DefaultAngle
  /\ isTracked = [f \in FaceRange |-> FALSE]
  /\ isvisible = [f \in FaceRange |-> FALSE]
  /\ pts = [f \in FaceRange |-> {}]
  /\ roiIn = {}
  /\ pc = "idle"
  /\ nbInfos = 0
  /\ nbFaceUsed = 0
  /\ iter = 0
  /\ normRes = 0
  /\ normRes_1 = 0
  /\ w = <<>>
  /\ blocks = <<>>
  /\ counted = {}
  /\ removed = {}
  /\ handed = <<>>
  /\ rankDeficient = FALSE
  /\ lost = {}
  /\ exact = FALSE
  /\ log = <<>>
  /\ lastOp = "none"
  /\ result = "none"
  /\ poseArg = IdPose
  /\ cMoPre = IdPose

\* ============================================================ vpRobotBiclops
\* The pan-tilt head: the operations of the main thread and the speed
\* control loop, which runs in a thread of its own.  Speeds are in units of
\* half the speed limit, positions in units of the soft limit.  The content
\* of shm.actual_q and shm.actual_q_dot is "unset" until a measure is
\* written into it.  readShm() and writeShm() copy the whole structure.
Axes == 1..ndof

Zeros == [i \in Axes |-> 0]

AllAxes(b) == [i \in Axes |-> b]

Frames == {"ARTICULAR_FRAME", "CAMERA_FRAME", "REFERENCE_FRAME", "MIXT_FRAME"}

\* velocity vectors handed to setVelocity(): the pan axis alone, at the
\* limit in either direction or at rest, and both axes with the pan axis in
\* excess
VelocityInputs == {[i \in Axes |-> IF i = 1 THEN v ELSE 0] :
                     v \in {0 - speedLimit, 0, speedLimit}} \cup
                  {[i \in Axes |-> IF i = 1 THEN 2 * speedLimit ELSE speedLimit]}

\* a vector setVelocity() accepts in the articular frame
GoodVector == [i \in Axes |-> speedLimit]

\* vectors that do not have ndof rows
BadVectors == {<<speedLimit>>, <<speedLimit, 0, 0>>}

\* the pairs (frame, vector) setVelocity() is called with
VelocityCalls == (Frames \X {GoodVector}) \cup ({"ARTICULAR_FRAME"} \X BadVectors) \cup
                 ({"ARTICULAR_FRAME"} \X VelocityInputs)


\* positions getActualPosition() may measure: the pan axis below the low
\* soft limit, between the limits, above the high soft limit; the tilt axis
\* between its limits
PositionInputs == {[i \in Axes |-> IF i = 1 THEN m ELSE 0] :
                     m \in {0 - 2 * softLimit, 0, 2 * softLimit}}

\* arguments of setPositioningVelocity()
PositioningInputs == {0 - 1, 0, MaxPositioningVelocity, MaxPositioningVelocity + 1, NaN}

IsNaN(x) == x = NaN

\* a < b on doubles: false when one of them is not a number
Less(a, b) == ~IsNaN(a) /\ ~IsNaN(b) /\ a < b

NoArg == [frame |-> "none", rows |-> 0, num |-> 0]

NoValue == [tag |-> "none", num |-> 0]

\* the shared memory of a controller that has measured nothing; also the
\* value of a local copy outside the call it belongs to
EmptyShm == [q_dot |-> Zeros, actual_q |-> "unset", actual_q_dot |-> "unset"]

\* the robot after its constructor (lines 59-98): the three mutexes are
\* initialised, vpMeasure_mutex is locked by the constructing thread
RobotConstructed ==
  /\ robotState = "STATE_STOP"
  /\ positioningVelocity = defaultPositioningVelocity
  /\ controlThreadCreated = FALSE
  /\ vpShm_mutex = "free"
  /\ vpEndThread_mutex = "free"
  /\ vpMeasure_mutex = "main"
  /\ mpc = "idle"
  /\ shm = EmptyShm
  /\ mshm = EmptyShm
  /\ tshm = EmptyShm
  /\ tpc = "none"
  /\ prev_q_dot = Zeros
  /\ q_dot = Zeros
  /\ force_halt = AllAxes(FALSE)
  /\ enable_limit = AllAxes(TRUE)
  /\ mes_q = Zeros
  /\ cmd = Zeros
  /\ cmdBy = "none"
  /\ rop = "none"
  /\ rres = "none"
  /\ rarg = NoArg
  /\ got = NoValue

\* no pose update applied on its own
NoUpdate == [v |-> 0, from |-> IdPose, to |-> IdPose, anchor |-> IdPose,
             stored |-> IdPose]

\* vpMbKltTracker(): compute_interaction = true
Init == Constructed(TRUE) /\ upd = NoUpdate /\ RobotConstructed

\* a tracker derived from vpMbKltTracker whose constructor clears
\* compute_interaction
DerivedInit == Constructed(FALSE) /\ upd = NoUpdate /\ RobotConstructed

\* what no operation of vpMbKltTracker writes
outerVars == <<compute_interaction, upd, robotVars>>

locals == <<nbInfos, nbFaceUsed, iter, normRes, normRes_1, w, blocks, counted,
            removed, handed, rankDeficient, lost, J, R, exact>>

\* the locals of computeVVS() are gone
LeaveVVS ==
  /\ iter' = 0
  /\ normRes' = 0
  /\ normRes_1' = 0
  /\ rankDeficient' = FALSE
  /\ lost' = {}
  /\ J' = NoRows
  /\ R' = NoRows
  /\ exact' = FALSE

\* nothing of a finished track() is left when the next call is entered
ResetLocals ==
  /\ LeaveVVS
  /\ w' = <<>>
  /\ nbInfos' = 0
  /\ nbFaceUsed' = 0
  /\ blocks' = <<>>
  /\ counted' = {}
  /\ removed' = {}
  /\ handed' = <<>>
faceVars == <<isTracked, isvisible, pts, roiIn>>
poseVars == <<cMo, c0Mo, ctTc0>>
angleVars == <<angleAppears, angleDisappears>>

\* ------------------------------------------------ configuration operations
\* vpMbTracker::loadModel: the faces are created by initFaceFromCorners and
\* the model is flagged as initialised
LoadModel ==
  /\ pc = "idle"
  /\ ~modelInitialised
  /\ modelInitialised' = TRUE
  /\ lastOp' = "config"
  /\ result' = "ok"
  /\ log' = <<>>
  /\ poseArg' = IdPose
  /\ cMoPre' = cMo
  /\ ResetLocals
  /\ UNCHANGED <<cameraInitialised, poseVars, angleVars, faceVars, pc>>
  /\ UNCHANGED outerVars

\* the camera is configured once, by setCameraParameters() or by
\* loadConfigFile()
SetCameraParameters ==
  /\ pc = "idle"
  /\ ~cameraInitialised
  /\ cameraInitialised' = TRUE
  /\ lastOp' = "config"
  /\ result' = "ok"
  /\ log' = <<>>
  /\ poseArg' = IdPose
  /\ cMoPre' = cMo
  /\ ResetLocals
  /\ UNCHANGED <<modelInitialised, poseVars, angleVars, faceVars, pc>>
  /\ UNCHANGED outerVars

\* (angleAppears, angleDisappears) read from a configuration file
AngleConfigs == {<<70, 90>>, <<90, 70>>}

LoadConfigFile ==
  /\ pc = "idle"
  /\ ~cameraInitialised
  /\ \E a \in AngleConfigs :
       /\ angleAppears' = a[1]
       /\ angleDisappears' = a[2]
  /\ cameraInitialised' = TRUE
  /\ lastOp' = "config"
  /\ result' = "ok"
  /\ log' = <<>>
  /\ poseArg' = IdPose
  /\ cMoPre' = cMo
  /\ ResetLocals
  /\ UNCHANGED <<modelInitialised, poseVars, faceVars, pc>>
  /\ UNCHANGED outerVars

\* variant of setPose() that also re-anchors on the given pose
SetPoseEffect_ReAnchors(P) ==
  /\ cMo' = P
  /\ c0Mo' = P
  /\ ctTc0' = IdPose

\* the body of setPose(): cMo = _cMo and nothing else
SetPoseEffect(P) ==
  /\ cMo' = P
  /\ UNCHANGED <<c0Mo, ctTc0>>

SetPose ==
  /\ pc = "idle"
  /\ \E P \in SetPoseInputs :
       /\ poseArg' = P
       /\ SetPoseEffect(P)
  /\ lastOp' = "setPose"
  /\ result' = "ok"
  /\ log' = <<>>
  /\ cMoPre' = cMo'
  /\ ResetLocals
  /\ UNCHANGED <<modelInitialised, cameraInitialised, angleVars, faceVars, pc>>
  /\ UNCHANGED outerVars

\* ------------------------------------------------------------------ init
\* the first n identifiers of face f: the features initTracking detects in
\* the polygon of f
Detected(f, n) == {id \in IdsOfFace(f) : id < (f - 1) * MaxPts + 1 + n}

\* variant of the guard that refuses only when both are missing
InitRefused_BothMissing == ~modelInitialised /\ ~cameraInitialised

\* init(): the guard of lines 85-90
InitRefused == ~modelInitialised \/ ~cameraInitialised

\* numbers of features initTracking may detect in the polygon of a face (the
\* mask holds the polygon of every visible face)
DetectCounts == {0, MaxPts}

\* the faces init() finds visible at the anchor
VisibleAtAnchor == {f \in 1..NbFaces : IsVisibleAt(f, cMo, angleAppears)}

\* variant that tracks every visible face, inside the image or not
InitTracked_IgnoresRoi(f, inside) == f \in VisibleAtAnchor

\* the tracked flag init() gives face f; inside: the faces whose projected
\* polygon lies in the image (roiInsideImage)
InitTracked(f, inside) == f \in VisibleAtAnchor /\ f \in inside

\* init() past its guard: anchor, incremental pose, mask, initTracking and
\* the faces
InitBody ==
  /\ c0Mo' = cMo
  /\ ctTc0' = IdPose
  /\ cMo' = cMo
  /\ \E inside \in SUBSET VisibleAtAnchor :
       \E n \in [VisibleAtAnchor -> DetectCounts] :
         /\ isTracked' = [f \in FaceRange |->
                            IF f <= NbFaces THEN InitTracked(f, inside)
                                            ELSE isTracked[f]]
         /\ isvisible' = [f \in FaceRange |->
                            IF f <= NbFaces THEN f \in VisibleAtAnchor
                                            ELSE isvisible[f]]
         /\ pts' = [f \in FaceRange |->
                      IF f <= NbFaces /\ InitTracked(f, inside)
                        THEN Detected(f, n[f]) ELSE pts[f]]
         /\ roiIn' = inside

InitCall ==
  /\ pc = "idle"
  /\ lastOp' = "init"
  /\ poseArg' = IdPose
  /\ cMoPre' = cMo
  /\ ResetLocals
  /\ \/ /\ InitRefused
        /\ result' = "fatalError"
        /\ log' = <<>>
        /\ UNCHANGED <<poseVars, faceVars>>
     \/ /\ ~InitRefused
        /\ InitBody
        /\ result' = "ok"
        /\ log' = <<"klt.init">>
  /\ UNCHANGED <<modelInitialised, cameraInitialised, angleVars, pc>>
  /\ UNCHANGED outerVars

\* ----------------------------------------------------------- preTracking
\* variant that counts every tracked face, whatever its number of points
PreCounted_AllTracked(p) == {f \in 1..NbFaces : isTracked[f]}

\* faces counted by preTracking when the faces hold the sets p
PreCounted(p) ==
  {f \in 1..NbFaces : isTracked[f] /\ Cardinality(p[f]) >= minNbPoint}

RECURSIVE SumPts(_, _)
SumPts(p, F) ==
  IF F = {} THEN 0
  ELSE LET f == CHOOSE x \in F : TRUE
       IN Cardinality(p[f]) + SumPts(p, F \ {f})

\* the first and the last identifier of S
EndPoints(S) == {id \in S : (\A j \in S : id <= j) \/ (\A j \in S : id >= j)}

\* the identifiers tracker.track() may stop reporting in this frame: at most
\* MaxLost of them, the first or the last point of faces that were in use
LostSets ==
  {L \in SUBSET (UNION {EndPoints(pts[f]) : f \in {g \in 1..NbFaces : Eligible(g)}}) :
     Cardinality(L) <= MaxLost}

\* variant of the test with the comparison on nbFaceUsed inverted
NotEnoughData_Inverted(n, k) == n < MinInfos /\ k # 0

\* variant that keeps the points the tracker stopped reporting
CurrentPoints_KeepsAll(S, unreported) == S

\* vpMbtKltPolygon::computeNbDetectedCurrent (line 214): the points of S that
\* the tracker still reports
CurrentPoints(S, unreported) == S \ unreported

\* track(): the test of line 343
NotEnoughData(n, k) == n < MinInfos \/ k = 0

\* normRes_1 = -1 at the entry of computeVVS: a value whose scaled difference
\* to normRes = 0 is not zero
NormResStart == 0 - 2

\* track() from its entry to the end of the test on nbInfos and nbFaceUsed
TrackPre ==
  /\ pc = "idle"
  /\ lastOp' = "track"
  /\ poseArg' = IdPose
  /\ cMoPre' = cMo
  /\ log' = <<"klt.track">>
  /\ lost' \in LostSets
  /\ pts' = [f \in FaceRange |->
               IF f <= NbFaces /\ isTracked[f] THEN CurrentPoints(pts[f], lost')
                                               ELSE pts[f]]
  /\ counted' = PreCounted(pts')
  /\ nbInfos' = SumPts(pts', counted')
  /\ nbFaceUsed' = Cardinality(counted')
  /\ IF NotEnoughData(nbInfos', nbFaceUsed')
       THEN /\ pc' = "idle"
            /\ result' = "notEnoughPointError"
            /\ exact' = FALSE
       ELSE /\ pc' = "vvs"
            /\ result' = "running"
            /\ exact' \in BOOLEAN
  /\ iter' = 0
  /\ normRes' = 0
  /\ normRes_1' = NormResStart
  /\ J' = NoRows
  /\ R' = NoRows
  /\ rankDeficient' = FALSE
  /\ w' = <<>>
  /\ blocks' = <<>>
  /\ removed' = {}
  /\ handed' = <<>>
  /\ UNCHANGED <<modelInitialised, cameraInitialised, poseVars, angleVars,
                 isTracked, isvisible, roiIn>>
  /\ UNCHANGED outerVars

\* ------------------------------------------------------------ computeVVS
\* (int)(d * 1e8) for a difference d given in units of 0.5e-8: the
\* conversion truncates towards zero
ScaledDiff(d) == IF d >= 0 THEN d \div 2 ELSE -((-d) \div 2)

\* variant of the loop test that never looks at the iteration count
LoopCondAt_NoCap(nr, nr1, it) == ScaledDiff(nr - nr1) # 0

\* the loop test of line 273
LoopCondAt(nr, nr1, it) == ScaledDiff(nr - nr1) # 0 /\ it < maxIter

LoopCond == LoopCondAt(normRes, normRes_1, iter)

\* variant that advances by one row per point
ShiftAfter_OneRowPerPoint(shift, f) == shift + NbPointsCur(f)

\* shift after the rows of face f
ShiftAfter(shift, f) == shift + 2 * NbPointsCur(f)

\* the (face, first row, size) of the sub-vectors built by lines 275-290
RECURSIVE BlocksFrom(_, _)
BlocksFrom(i, shift) ==
  IF i > NbFaces THEN <<>>
  ELSE IF Eligible(i)
         THEN <<[face |-> i, first |-> shift, size |-> 2 * NbPointsCur(i)]>>
              \o BlocksFrom(i + 1, ShiftAfter(shift, i))
         ELSE BlocksFrom(i + 1, shift)

LowWeightVals == WeightVals \ {10}

\* the points (numbered in row order) that may be down-weighted: the first
\* and the last point of every block
LowCandidates(n) ==
  LET bs == BlocksFrom(1, 0)
  IN (1..n) \cap UNION {{bs[k].first \div 2 + 1, (bs[k].first + bs[k].size) \div 2} :
                         k \in 1..Len(bs)}

\* weight vectors vpRobust::MEstimator may return for n points: at most
\* MaxLow points are down-weighted, and only once the residuals have settled
\* (last: the loop stops after this iteration)
RobustWeights(n, last) ==
  {[r \in 1..(2 * n) |-> IF ((r + 1) \div 2) \in low THEN lw ELSE 10] :
     low \in {L \in SUBSET LowCandidates(n) :
                Cardinality(L) <= (IF last THEN MaxLow ELSE 0)},
     lw \in LowWeightVals}

\* variant that composes the exponential itself
UpdatePose_Direct(v, T) == Compose(ExpMap(v), T)

\* the pose update of line 320
UpdatePose(v, T) == Compose(Inverse(ExpMap(v)), T)

\* variant that stores the pose inside the loop
PoseInLoop_Stored(T) == Compose(T, c0Mo)

\* the stored pose after an iteration that left the incremental pose T: the
\* loop body does not assign cMo
PoseInLoop(T) == cMo

\* whether J^T J may have rank below 6 when the rows are those of bs: the
\* points of a single face lie in one plane; two faces of the model do not
RankOutcomes(bs) == IF Len(bs) <= 1 THEN BOOLEAN ELSE {FALSE}

\* lines 316-318: the increment is solved with pseudoInverse(1e-16), which
\* returns a vector whatever the rank of J^T J (deficient: the rank is
\* below 6); nothing is thrown
Solve(deficient) == Twists

\* lines 301-306: the sums of weighted residuals an iteration may find; the
\* residuals of a frame without noise are all zero (zeroR), and so is their
\* sum
ResidualSums(zeroR) == IF zeroR THEN {0} ELSE NormVals

\* variant whose increment does not depend on the residuals
SolveFrom_IgnoresResidual(zeroR, deficient) == Solve(deficient)

\* lines 316-318 with the residuals: J^T R is zero when R is, and so is the
\* increment
SolveFrom(zeroR, deficient) == IF zeroR THEN {0} ELSE Solve(deficient)

\* rows computed in iteration it and not yet multiplied by any weight:
\* computeInteractionMatrixAndResidu fills subR and subJ of every face in
\* use, in every iteration (lines 276-290)
FreshRows(it) == [built |-> it, scaled |-> 0]

\* rows m after one multiplication by the weights
Weighted(m) == [m EXCEPT !.scaled = @ + 1]

\* lines 303-306: every row of R is multiplied by its weight
WeightR(m) == Weighted(m)

\* lines 308-314: the rows of J are multiplied by their weights in
\* iteration 0 and when compute_interaction is set
WeightJ(it, m) == IF it = 0 \/ compute_interaction THEN Weighted(m) ELSE m

\* the body of the loop of computeVVS (lines 275-322): sub-vectors, weights,
\* residual sum, pose increment
LoopBody(nr, last) ==
  /\ pc = "vvs"
  /\ LoopCond
  /\ blocks' = BlocksFrom(1, 0)
  /\ w' \in RobustWeights(nbInfos, last /\ ~exact)
  /\ rankDeficient' \in RankOutcomes(blocks')
  /\ lost' = {}
  /\ exact' = exact
  /\ J' = WeightJ(iter, FreshRows(iter))
  /\ R' = WeightR(FreshRows(iter))
  /\ \E v \in SolveFrom(exact, rankDeficient') : ctTc0' = UpdatePose(v, ctTc0)
  /\ UNCHANGED <<modelInitialised, cameraInitialised, c0Mo, angleVars,
                 faceVars, nbInfos, nbFaceUsed, counted, removed, handed,
                 lastOp, result, poseArg, cMoPre>>
  /\ UNCHANGED outerVars

\* an iteration after which the loop goes on
VVSIter ==
  /\ \E nr \in ResidualSums(exact) :
       /\ LoopCondAt(nr, normRes, iter + 1)
       /\ LoopBody(nr, FALSE)
       /\ normRes' = nr
  /\ normRes_1' = normRes
  /\ iter' = iter + 1
  /\ cMo' = PoseInLoop(ctTc0')
  /\ pc' = "vvs"
  /\ log' = IF iter = 0 THEN Append(log, "vvs") ELSE log

\* variant that stores the anchor and drops the increment
FinalPose_AnchorOnly(T, A) == A

\* variant that applies the increment to the stored pose
FinalPose_OnStored(T, A) == Compose(T, cMo)

\* the stored pose computed by line 325 from the incremental pose T and the
\* anchor A
FinalPose(T, A) == Compose(T, A)

\* variant of track() that re-initialises right after computeVVS
AfterVVS_SkipsPost == "reinit"

\* the stage of track() that follows computeVVS: postTracking (line 351)
AfterVVS == "post"

\* the last iteration, the exit of the loop and line 325
VVSLast ==
  /\ \E nr \in ResidualSums(exact) :
       /\ ~LoopCondAt(nr, normRes, iter + 1)
       /\ LoopBody(nr, TRUE)
       /\ normRes' = nr
  /\ normRes_1' = normRes
  /\ iter' = iter + 1
  /\ cMo' = FinalPose(ctTc0', c0Mo)
  /\ pc' = AfterVVS
  /\ log' = (IF iter = 0 THEN Append(log, "vvs") ELSE log) \o <<"pose">>

\* computeHomography or computeInteractionMatrixAndResidu throws for a face:
\* the exception leaves computeVVS and track
VVSThrow ==
  /\ pc = "vvs"
  /\ LoopCond
  /\ \E f \in 1..NbFaces : Eligible(f)
  /\ pc' = "idle"
  /\ result' = "faceException"
  /\ log' = Append(log, "throw")
  /\ LeaveVVS
  /\ w' = <<>>
  /\ UNCHANGED <<modelInitialised, cameraInitialised, poseVars, angleVars,
                 faceVars, nbInfos, nbFaceUsed, blocks, counted, removed,
                 handed, lastOp, poseArg, cMoPre>>
  /\ UNCHANGED outerVars

\* ---------------------------------------------------------- postTracking
\* vpSubColVector(w, shift, n)
SubVec(vec, shift, n) == [k \in 1..n |-> vec[shift + k]]

\* position of id in the ordered set S
Rank(S, id) == Cardinality({j \in S : j <= id})

\* vpMbtKltPolygon::removeOutliers: the points of S kept under weights sw
RemoveOutliers(S, sw) ==
  {id \in S : /\ sw[2 * Rank(S, id) - 1] >= threshold_outlier
              /\ sw[2 * Rank(S, id)] >= threshold_outlier}

\* the loop of lines 231-238 from face i on: the sets of the faces, the
\* faces handed to removeOutliers and the sub-vectors of w handed to them.
\* Line 236 reads getNbPointsCur() after removeOutliers has run.
RECURSIVE PostFrom(_, _, _, _, _)
PostFrom(i, shift, p, rem, hd) ==
  IF i > NbFaces THEN [pts |-> p, removed |-> rem, handed |-> hd]
  ELSE IF isTracked[i] /\ Cardinality(p[i]) >= minNbPoint
         THEN LET size == 2 * Cardinality(p[i])
                  sub_w == SubVec(w, shift, size)
                  kept == RemoveOutliers(p[i], sub_w)
              IN PostFrom(i + 1, shift + 2 * Cardinality(kept),
                          [p EXCEPT ![i] = kept], rem \cup {i},
                          Append(hd, [face |-> i, first |-> shift, size |-> size]))
         ELSE PostFrom(i + 1, shift, p, rem, hd)

\* variant of the call of line 241 with the two angles exchanged
SetVisibleAngles_Exchanged == <<angleDisappears, angleAppears>>

\* the angles handed to setVisible by line 241: appear, disappear
SetVisibleAngles == <<angleAppears, angleDisappears>>

\* vpMbHiddenFaces::setVisible: the flag of a face f whose flag was vis, at
\* pose P: a visible face is tested against the second angle (disappear),
\* a face that is not visible against the first (appear)
VisibleNext(vis, f, P) ==
  IF vis THEN IsVisibleAt(f, P, SetVisibleAngles[2])
         ELSE IsVisibleAt(f, P, SetVisibleAngles[1])

\* the visible flag of face f after setVisible at pose P
NewVisible(f, P) == VisibleNext(isvisible[f], f, P)

\* a face goes from not visible to visible
ReInitialisation(P) == \E f \in 1..NbFaces : ~isvisible[f] /\ NewVisible(f, P)

\* variant of track() that never re-initialises
ReInitAfterPost_Never(marked) == FALSE

\* variant of track() that re-initialises after every frame
ReInitAfterPost_Always(marked) == TRUE

\* track(), lines 351-352: init() is called when postTracking returns true,
\* and postTracking returns reInitialisation (lines 243-246)
ReInitAfterPost(marked) == marked

PostTracking ==
  /\ pc = "post"
  /\ LET r == PostFrom(1, 0, pts, {}, <<>>)
     IN /\ pts' = r.pts
        /\ removed' = r.removed
        /\ handed' = r.handed
  /\ isvisible' = [f \in FaceRange |->
                     IF f <= NbFaces THEN NewVisible(f, cMo) ELSE isvisible[f]]
  /\ log' = log \o <<"outliers", "visible">>
  /\ IF ReInitAfterPost(ReInitialisation(cMo))
       THEN /\ pc' = "reinit"
            /\ result' = result
            /\ cMoPre' = cMoPre
       ELSE /\ pc' = "idle"
            /\ result' = "ok"
            /\ cMoPre' = cMo
  /\ w' = <<>>
  /\ LeaveVVS
  /\ UNCHANGED <<modelInitialised, cameraInitialised, poseVars, angleVars,
                 isTracked, roiIn, nbInfos, nbFaceUsed, blocks, counted,
                 lastOp, poseArg>>
  /\ UNCHANGED outerVars

\* track(): init(_I) of line 352
ReInit ==
  /\ pc = "reinit"
  /\ pc' = "idle"
  /\ IF InitRefused
       THEN /\ result' = "fatalError"
            /\ log' = log
            /\ UNCHANGED <<poseVars, faceVars, cMoPre>>
       ELSE /\ InitBody
            /\ result' = "ok"
            /\ log' = Append(log, "klt.init")
            /\ cMoPre' = cMo
  /\ UNCHANGED <<modelInitialised, cameraInitialised, angleVars, locals,
                 lastOp, poseArg>>
  /\ UNCHANGED outerVars

\* ----------------------------------------------------------- testTracking
\* nbTotalPoints of lines 510-515: the points of every tracked face
TotalTracked(p) == SumPts(p, {f \in 1..NbFaces : isTracked[f]})

\* variant of the test that also fails at the minimum
TestFails_Inclusive(n) == n <= MinTotalPoints

\* the test of line 517
TestFails(n) == n < MinTotalPoints

TestTracking ==
  /\ pc = "idle"
  /\ lastOp' = "testTracking"
  /\ result' = IF TestFails(TotalTracked(pts)) THEN "fatalError" ELSE "ok"
  /\ log' = <<>>
  /\ poseArg' = IdPose
  /\ cMoPre' = cMo
  /\ ResetLocals
  /\ UNCHANGED <<modelInitialised, cameraInitialised, poseVars, angleVars,
                 faceVars, pc>>
  /\ UNCHANGED outerVars

Next ==
  \/ LoadModel
  \/ SetCameraParameters
  \/ LoadConfigFile
  \/ SetPose
  \/ InitCall
  \/ TrackPre
  \/ VVSIter
  \/ VVSThrow
  \/ VVSLast
  \/ PostTracking
  \/ ReInit
  \/ TestTracking

Spec == Init /\ [][Next]_vars

\* the derived tracker
DerivedSpec == DerivedInit /\ [][Next]_vars

\* ------------------------------------------- the pose update on its own
\* lines 320 and 325 applied to every increment of TwistInputs, every
\* incremental pose and every anchor
PoseInit ==
  /\ Constructed(TRUE)
  /\ RobotConstructed
  /\ upd \in {[v |-> 0, from |-> IdPose, to |-> IdPose, anchor |-> A,
               stored |-> FinalPose(IdPose, A)] : A \in Poses}

\* an iteration (line 320) followed by the exit of the loop (line 325)
UpdateStep ==
  /\ \E v \in TwistInputs :
       upd' = [v |-> v,
               from |-> upd.to,
               to |-> UpdatePose(v, upd.to),
               anchor |-> upd.anchor,
               stored |-> FinalPose(UpdatePose(v, upd.to), upd.anchor)]
  /\ UNCHANGED trackerVars
  /\ UNCHANGED robotVars

\* init(), lines 91-92: the stored pose becomes the anchor and the
\* incremental pose the identity
AnchorStep ==
  /\ upd' = [v |-> 0, from |-> IdPose, to |-> IdPose, anchor |-> upd.stored,
             stored |-> upd.stored]
  /\ UNCHANGED trackerVars
  /\ UNCHANGED robotVars

PoseNext == UpdateStep \/ AnchorStep

PoseSpec == PoseInit /\ [][PoseNext]_vars

mutexVars == <<vpShm_mutex, vpEndThread_mutex, vpMeasure_mutex>>
loopVars == <<prev_q_dot, q_dot, force_halt, enable_limit, mes_q>>
callVars == <<rop, rres, rarg, got>>

\* the main thread calls op with argument arg; it ends with res and returns
\* value
Called(op, arg, res, value) ==
  /\ rop' = op
  /\ rarg' = arg
  /\ rres' = res
  /\ got' = value

\* ------------------------------------------------------- the main thread
\* stopMotion(): a zero velocity on every axis
StopMotion ==
  /\ cmd' = Zeros
  /\ cmdBy' = "main"

\* whether setRobotState(newState) halts the axes (lines 479-496)
Halts(newState) ==
  \/ newState = "STATE_STOP" /\ robotState # "STATE_STOP"
  \/ newState = "STATE_POSITION_CONTROL" /\ robotState = "STATE_VELOCITY_CONTROL"

\* setRobotState(STATE_STOP) and setRobotState(STATE_POSITION_CONTROL)
SetRobotStateStill ==
  /\ mpc = "idle"
  /\ \E newState \in {"STATE_STOP", "STATE_POSITION_CONTROL"} :
       /\ IF Halts(newState) THEN StopMotion ELSE UNCHANGED <<cmd, cmdBy>>
       /\ robotState' = newState
  /\ Called("setRobotState", NoArg, "ok", NoValue)
  /\ UNCHANGED <<positioningVelocity, controlThreadCreated, mutexVars, mpc,
                 mshm, tshm, shm, tpc, loopVars>>
  /\ UNCHANGED trackerVars
  /\ UNCHANGED upd

\* setRobotState(STATE_VELOCITY_CONTROL), lines 497-522: out of velocity
\* control the end-of-thread mutex is locked and the control thread is
\* created.  The mutex is a default one: the call waits while it is locked,
\* by this very thread too, and nothing but the destructor unlocks it
SetRobotStateVelocity ==
  /\ mpc = "idle"
  /\ IF robotState = "STATE_VELOCITY_CONTROL"
       THEN /\ Called("setRobotState", NoArg, "ok", NoValue)
            /\ UNCHANGED <<robotState, vpEndThread_mutex, tpc,
                           controlThreadCreated, mpc>>
       ELSE IF vpEndThread_mutex = "free"
         THEN /\ vpEndThread_mutex' = "main"
              /\ tpc' = "init"
              /\ controlThreadCreated' = TRUE
              /\ robotState' = "STATE_VELOCITY_CONTROL"
              /\ Called("setRobotState", NoArg, "ok", NoValue)
              /\ UNCHANGED mpc
         ELSE /\ mpc' = "lockEnd"
              /\ Called("setRobotState", NoArg, "running", NoValue)
              /\ UNCHANGED <<robotState, vpEndThread_mutex, tpc,
                             controlThreadCreated>>
  /\ UNCHANGED <<positioningVelocity, vpShm_mutex, vpMeasure_mutex, mshm,
                 tshm, shm, loopVars, cmd, cmdBy>>
  /\ UNCHANGED trackerVars
  /\ UNCHANGED upd

\* setPosition(), lines 684-724: the robot is put in position control, a
\* frame that is not the articular one is refused, the axes are moved at
\* the positioning velocity
SetPosition ==
  /\ mpc = "idle"
  /\ IF Halts("STATE_POSITION_CONTROL") THEN StopMotion ELSE UNCHANGED <<cmd, cmdBy>>
  /\ robotState' = "STATE_POSITION_CONTROL"
  /\ \E frame \in Frames :
       IF frame # "ARTICULAR_FRAME"
         THEN Called("setPosition", [NoArg EXCEPT !.frame = frame],
                     "wrongStateError", NoValue)
         ELSE Called("setPosition", [NoArg EXCEPT !.frame = frame], "ok",
                     [tag |-> "moved", num |-> positioningVelocity])
  /\ UNCHANGED <<positioningVelocity, controlThreadCreated, mutexVars, mpc,
                 mshm, tshm, shm, tpc, loopVars>>
  /\ UNCHANGED trackerVars
  /\ UNCHANGED upd

\* variant that refuses only the camera frame
FrameRefused_OnlyCamera(frame) == frame = "CAMERA_FRAME"

\* setVelocity(), lines 901-953: every frame but the articular one is
\* refused
FrameRefused(frame) == frame # "ARTICULAR_FRAME"

\* setVelocity(), line 916
BadRows(q) == Len(q) # ndof

Abs(x) == IF x < 0 THEN 0 - x ELSE x

\* the largest of speedLimit and the speeds of q from axis i on (lines
\* 958-967)
RECURSIVE MaxSpeed(_, _, _)
MaxSpeed(q, i, max) ==
  IF i > ndof THEN max
  ELSE MaxSpeed(q, i + 1, IF Abs(q[i]) > max THEN Abs(q[i]) ELSE max)

\* q_dot_sat = q_dot * (speedLimit / max), lines 968-970
Saturate(q) == [i \in Axes |-> (q[i] * speedLimit) \div MaxSpeed(q, 1, speedLimit)]

\* setVelocity() refused: lines 892-953
SetVelocityRefused ==
  /\ mpc = "idle"
  /\ \E c \in VelocityCalls :
       /\ \/ robotState # "STATE_VELOCITY_CONTROL"
          \/ FrameRefused(c[1])
          \/ BadRows(c[2])
       /\ Called("setVelocity", [frame |-> c[1], rows |-> Len(c[2]), num |-> 0],
                 "wrongStateError", NoValue)
  /\ UNCHANGED <<robotState, positioningVelocity, controlThreadCreated,
                 mutexVars, mpc, mshm, tshm, shm, tpc, loopVars, cmd, cmdBy>>
  /\ UNCHANGED trackerVars
  /\ UNCHANGED upd

\* setVelocity() accepted, lines 955-982: the saturated velocity is put in
\* a copy of the shared memory read under vpShm_mutex
SetVelocityRead ==
  /\ mpc = "idle"
  /\ robotState = "STATE_VELOCITY_CONTROL"
  /\ vpShm_mutex = "free"
  /\ \E c \in VelocityCalls :
       /\ ~FrameRefused(c[1])
       /\ ~BadRows(c[2])
       /\ mshm' = [shm EXCEPT !.q_dot = Saturate(c[2])]
       /\ Called("setVelocity", [frame |-> c[1], rows |-> Len(c[2]), num |-> 0],
                 "running", NoValue)
  /\ vpShm_mutex' = "main"
  /\ mpc' = "setVelocity"
  /\ UNCHANGED <<robotState, positioningVelocity, controlThreadCreated,
                 vpEndThread_mutex, vpMeasure_mutex, tshm, shm, tpc, loopVars,
                 cmd, cmdBy>>
  /\ UNCHANGED trackerVars
  /\ UNCHANGED upd

\* setVelocity(), lines 984-989: the copy is written back and the mutex
\* released
SetVelocityWrite ==
  /\ mpc = "setVelocity"
  /\ shm' = mshm
  /\ mshm' = EmptyShm
  /\ vpShm_mutex' = "free"
  /\ mpc' = "idle"
  /\ rres' = "ok"
  /\ UNCHANGED <<robotState, positioningVelocity, controlThreadCreated,
                 vpEndThread_mutex, vpMeasure_mutex, tshm, tpc, loopVars,
                 cmd, cmdBy, rop, rarg, got>>
  /\ UNCHANGED trackerVars
  /\ UNCHANGED upd

\* getPosition() and getVelocity(), lines 808-832 and 1013-1037: a frame
\* that is not the articular one
GetRefused ==
  /\ mpc = "idle"
  /\ \E op \in {"getPosition", "getVelocity"}, frame \in Frames \ {"ARTICULAR_FRAME"} :
       Called(op, [NoArg EXCEPT !.frame = frame], "wrongStateError", NoValue)
  /\ UNCHANGED <<robotState, positioningVelocity, controlThreadCreated,
                 mutexVars, mpc, mshm, tshm, shm, tpc, loopVars, cmd, cmdBy>>
  /\ UNCHANGED trackerVars
  /\ UNCHANGED upd

\* what the state makes getPosition() and getVelocity() read (lines 837-846
\* and 1042-1051): the controller, or the shared memory
ReadsShm == robotState \notin {"STATE_STOP", "STATE_POSITION_CONTROL"}

\* getPosition(ARTICULAR_FRAME): out of velocity control the position is
\* asked to the controller; in velocity control the call waits for
\* vpMeasure_mutex, reads the shared memory under vpShm_mutex and releases
\* both
GetPosition ==
  /\ mpc = "idle"
  /\ IF ReadsShm
       THEN /\ vpMeasure_mutex = "free"
            /\ vpShm_mutex = "free"
            /\ Called("getPosition", [NoArg EXCEPT !.frame = "ARTICULAR_FRAME"],
                      "ok", [tag |-> shm.actual_q, num |-> 0])
       ELSE Called("getPosition", [NoArg EXCEPT !.frame = "ARTICULAR_FRAME"],
                   "ok", [tag |-> "controller", num |-> 0])
  /\ UNCHANGED <<robotState, positioningVelocity, controlThreadCreated,
                 mutexVars, mpc, mshm, tshm, shm, tpc, loopVars, cmd, cmdBy>>
  /\ UNCHANGED trackerVars
  /\ UNCHANGED upd

\* getVelocity(ARTICULAR_FRAME), likewise with shm.actual_q_dot
GetVelocity ==
  /\ mpc = "idle"
  /\ IF ReadsShm
       THEN /\ vpMeasure_mutex = "free"
            /\ vpShm_mutex = "free"
            /\ Called("getVelocity", [NoArg EXCEPT !.frame = "ARTICULAR_FRAME"],
                      "ok", [tag |-> shm.actual_q_dot, num |-> 0])
       ELSE Called("getVelocity", [NoArg EXCEPT !.frame = "ARTICULAR_FRAME"],
                   "ok", [tag |-> "controller", num |-> 0])
  /\ UNCHANGED <<robotState, positioningVelocity, controlThreadCreated,
                 mutexVars, mpc, mshm, tshm, shm, tpc, loopVars, cmd, cmdBy>>
  /\ UNCHANGED trackerVars
  /\ UNCHANGED upd

\* the test of line 644
BadPositioningVelocity(velocity) ==
  Less(velocity, 0) \/ Less(MaxPositioningVelocity, velocity)

SetPositioningVelocity ==
  /\ mpc = "idle"
  /\ \E velocity \in PositioningInputs :
       IF BadPositioningVelocity(velocity)
         THEN /\ Called("setPositioningVelocity", [NoArg EXCEPT !.num = velocity],
                        "constructionError", NoValue)
              /\ UNCHANGED positioningVelocity
         ELSE /\ Called("setPositioningVelocity", [NoArg EXCEPT !.num = velocity],
                        "ok", NoValue)
              /\ positioningVelocity' = velocity
  /\ UNCHANGED <<robotState, controlThreadCreated, mutexVars, mpc, mshm, tshm,
                 shm, tpc, loopVars, cmd, cmdBy>>
  /\ UNCHANGED trackerVars
  /\ UNCHANGED upd

GetPositioningVelocity ==
  /\ mpc = "idle"
  /\ Called("getPositioningVelocity", NoArg, "ok",
            [tag |-> "velocity", num |-> positioningVelocity])
  /\ UNCHANGED <<robotState, positioningVelocity, controlThreadCreated,
                 mutexVars, mpc, mshm, tshm, shm, tpc, loopVars, cmd, cmdBy>>
  /\ UNCHANGED trackerVars
  /\ UNCHANGED upd

\* variant of the destructor that never joins
JoinNeeded_Never(created) == FALSE

\* the destructor, lines 121-129: the control thread is joined when it was
\* created
JoinNeeded(created) == created

\* the destructor, lines 112-129: the axes are stopped, the end-of-thread
\* mutex is released, and the control thread is waited for
DestructorBegin ==
  /\ mpc = "idle"
  /\ IF Halts("STATE_STOP") THEN StopMotion ELSE UNCHANGED <<cmd, cmdBy>>
  /\ robotState' = "STATE_STOP"
  /\ vpEndThread_mutex' = "free"
  /\ mpc' = IF JoinNeeded(controlThreadCreated) THEN "join" ELSE "destroy"
  /\ Called("destructor", NoArg, "running", NoValue)
  /\ UNCHANGED <<positioningVelocity, controlThreadCreated, vpShm_mutex,
                 vpMeasure_mutex, mshm, tshm, shm, tpc, loopVars>>
  /\ UNCHANGED trackerVars
  /\ UNCHANGED upd

\* pthread_join returns once the control thread has returned
DestructorJoin ==
  /\ mpc = "join"
  /\ tpc = "exited"
  /\ mpc' = "destroy"
  /\ UNCHANGED <<robotState, positioningVelocity, controlThreadCreated,
                 mutexVars, mshm, tshm, shm, tpc, loopVars, cmd, cmdBy,
                 callVars>>
  /\ UNCHANGED trackerVars
  /\ UNCHANGED upd

\* the destructor, lines 131-138: the mutexes are destroyed
DestructorEnd ==
  /\ mpc = "destroy"
  /\ mpc' = "destroyed"
  /\ vpShm_mutex' = "destroyed"
  /\ vpEndThread_mutex' = "destroyed"
  /\ vpMeasure_mutex' = "destroyed"
  /\ rres' = "ok"
  /\ UNCHANGED <<robotState, positioningVelocity, controlThreadCreated, mshm,
                 tshm, shm, tpc, loopVars, cmd, cmdBy, rop, rarg, got>>
  /\ UNCHANGED trackerVars
  /\ UNCHANGED upd

\* ---------------------------------------------------- the control thread
\* what pthread_mutex_unlock may leave of a mutex in state m when the
\* thread "by" calls it: the owner releases it; the call of another thread is
\* undefined for a default mutex, it releases the mutex or fails
Unlocked(m, by) ==
  IF m = by \/ m = "free" THEN {"free"} ELSE {"free", m}

\* lines 231-246: the desired speed is read under the mutex, the flags of
\* every axis are set
LoopInit ==
  /\ tpc = "init"
  /\ vpShm_mutex = "free"
  /\ prev_q_dot' = shm.q_dot
  /\ force_halt' = AllAxes(FALSE)
  /\ enable_limit' = AllAxes(TRUE)
  /\ q_dot' = Zeros
  /\ tpc' = "measure"
  /\ UNCHANGED <<robotState, positioningVelocity, controlThreadCreated,
                 mutexVars, mpc, mshm, tshm, shm, mes_q, cmd, cmdBy, callVars>>
  /\ UNCHANGED trackerVars
  /\ UNCHANGED upd

\* lines 249-252: the first measure, and a copy of the shared memory read
\* without the mutex
FirstRead ==
  /\ tpc = "measure"
  /\ tshm' = shm
  /\ tpc' = "write"
  /\ UNCHANGED <<robotState, positioningVelocity, controlThreadCreated,
                 mutexVars, mpc, mshm, shm, loopVars, cmd, cmdBy, callVars>>
  /\ UNCHANGED trackerVars
  /\ UNCHANGED upd

\* lines 254-265: the copy with the measure is written back without the
\* mutex; vpShm_mutex, which this thread does not hold, and vpMeasure_mutex,
\* which the constructor locked, are unlocked
FirstWrite ==
  /\ tpc = "write"
  /\ shm' = [tshm EXCEPT !.actual_q = "measured", !.actual_q_dot = "measured"]
  /\ vpShm_mutex' \in Unlocked(vpShm_mutex, "thread")
  /\ vpMeasure_mutex' \in Unlocked(vpMeasure_mutex, "thread")
  /\ tpc' = "loop"
  /\ UNCHANGED <<robotState, positioningVelocity, controlThreadCreated,
                 vpEndThread_mutex, mpc, mshm, tshm, loopVars, cmd, cmdBy,
                 callVars>>
  /\ UNCHANGED trackerVars
  /\ UNCHANGED upd

\* lines 300-313: the axis is beyond one of its soft limits
InLimit(mes) == mes < 0 - softLimit \/ mes > softLimit

\* lines 337-416 for one axis: the speed to send, the two flags, and whether
\* a speed has to be sent
Decide(stop, desired, prev, qd, fh, en) ==
  LET new == desired # prev
      change == desired * prev < 0
      keep == [q_dot |-> qd, force_halt |-> fh, enable_limit |-> en,
               update |-> FALSE]
      halt(e) == IF fh THEN keep
                 ELSE [q_dot |-> 0, force_halt |-> TRUE, enable_limit |-> e,
                       update |-> TRUE]
  IN IF new
       THEN IF stop
              THEN IF ~change
                     THEN IF en THEN halt(en)
                          ELSE [q_dot |-> desired, force_halt |-> FALSE,
                                enable_limit |-> en, update |-> TRUE]
                     ELSE IF en
                            THEN [q_dot |-> desired, force_halt |-> FALSE,
                                  enable_limit |-> FALSE, update |-> TRUE]
                            ELSE halt(TRUE)
              ELSE [q_dot |-> desired, force_halt |-> fh,
                    enable_limit |-> TRUE, update |-> TRUE]
       ELSE IF stop
              THEN IF en THEN halt(en) ELSE keep
              ELSE [q_dot |-> qd, force_halt |-> fh, enable_limit |-> TRUE,
                    update |-> FALSE]

\* one turn of the loop, lines 270-435: measure, shared memory, the decision
\* for every axis, the speeds sent to the controller when one of them
\* changed; measures: the positions the axes may be measured at
Turn(measures) ==
  /\ tpc = "loop"
  /\ vpShm_mutex = "free"
  /\ \E mes \in measures :
       LET d == [i \in Axes |->
                   Decide(InLimit(mes[i]), shm.q_dot[i], prev_q_dot[i], q_dot[i],
                          force_halt[i], enable_limit[i])]
       IN /\ mes_q' = mes
          /\ q_dot' = [i \in Axes |-> d[i].q_dot]
          /\ force_halt' = [i \in Axes |-> d[i].force_halt]
          /\ enable_limit' = [i \in Axes |-> d[i].enable_limit]
          /\ IF \E i \in Axes : d[i].update
               THEN /\ cmd' = q_dot'
                    /\ cmdBy' = "thread"
               ELSE UNCHANGED <<cmd, cmdBy>>
  /\ shm' = [shm EXCEPT !.actual_q = "measured", !.actual_q_dot = "measured"]
  /\ tshm' = shm'
  /\ prev_q_dot' = shm.q_dot
  /\ tpc' = "check"
  /\ UNCHANGED <<robotState, positioningVelocity, controlThreadCreated,
                 mutexVars, mpc, mshm, callVars>>
  /\ UNCHANGED trackerVars
  /\ UNCHANGED upd

\* lines 440-448: the end-of-thread mutex is held, the loop goes on
LoopAgain ==
  /\ tpc = "check"
  /\ vpEndThread_mutex # "free"
  /\ tpc' = "loop"
  /\ UNCHANGED <<robotState, positioningVelocity, controlThreadCreated,
                 mutexVars, mpc, mshm, tshm, shm, loopVars, cmd, cmdBy,
                 callVars>>
  /\ UNCHANGED trackerVars
  /\ UNCHANGED upd

\* lines 440-464: the end-of-thread mutex could be locked; it is released,
\* the loop is left, a zero velocity is sent and the thread returns
LoopExit ==
  /\ tpc = "check"
  /\ vpEndThread_mutex = "free"
  /\ q_dot' = Zeros
  /\ cmd' = Zeros
  /\ cmdBy' = "thread"
  /\ tpc' = "exited"
  /\ UNCHANGED <<robotState, positioningVelocity, controlThreadCreated,
                 mutexVars, mpc, mshm, tshm, shm, prev_q_dot, force_halt,
                 enable_limit, mes_q, callVars>>
  /\ UNCHANGED trackerVars
  /\ UNCHANGED upd

\* a turn of the loop with the axes anywhere
LoopTurn == Turn(PositionInputs)

\* a turn of the loop with the axes between their soft limits
LoopTurnWithin == Turn({Zeros})


PositioningNext ==
  \/ SetRobotStateStill
  \/ SetPosition
  \/ SetPositioningVelocity
  \/ GetPositioningVelocity
  \/ GetRefused
  \/ GetPosition
  \/ GetVelocity

\* the robot positioned, never driven in velocity
PositioningSpec == Init /\ [][PositioningNext]_vars

RobotNext ==
  \/ SetRobotStateStill
  \/ SetRobotStateVelocity
  \/ SetVelocityRefused
  \/ SetVelocityRead
  \/ SetVelocityWrite
  \/ GetPosition
  \/ GetVelocity
  \/ DestructorBegin
  \/ DestructorJoin
  \/ DestructorEnd
  \/ LoopInit
  \/ FirstRead
  \/ FirstWrite
  \/ LoopTurnWithin
  \/ LoopAgain
  \/ LoopExit

\* the robot driven in velocity and read, its axes between their soft
\* limits
RobotSpec == Init /\ [][RobotNext]_vars

LoopNext ==
  \/ SetRobotStateStill
  \/ SetRobotStateVelocity
  \/ SetVelocityRead
  \/ SetVelocityWrite
  \/ DestructorBegin
  \/ DestructorJoin
  \/ DestructorEnd
  \/ LoopInit
  \/ FirstRead
  \/ FirstWrite
  \/ LoopTurn
  \/ LoopAgain
  \/ LoopExit

\* the robot driven in velocity, its axes anywhere
LoopSpec == Init /\ [][LoopNext]_vars

LoopThreadNext == LoopInit \/ FirstRead \/ FirstWrite \/ LoopTurn \/ LoopAgain \/ LoopExit

\* the threads are scheduled: the control thread takes a step that stays
\* possible, and so does the main thread inside the destructor and inside
\* setVelocity()
LoopFairSpec ==
  /\ LoopSpec
  /\ WF_vars(LoopThreadNext)
  /\ WF_vars(DestructorJoin \/ DestructorEnd)
  /\ WF_vars(SetVelocityWrite)

\* ------------------------------------------------------------ properties
\* track() has returned
TrackReturned == lastOp = "track" /\ pc = "idle"

\* C1: track() fails with the insufficient-data error whenever, after
\* pre-tracking, fewer than 4 correspondences are counted or no face is
\* counted; in that frame the tracker's track is the only stage entered: no
\* refinement iteration, no outlier removal, no visibility update, no
\* re-initialisation, no second attempt.
C1_InsufficientDataFails ==
  (lastOp = "track" /\ (nbInfos < 4 \/ nbFaceUsed = 0)) =>
    /\ pc = "idle"
    /\ result = "notEnoughPointError"
    /\ log = <<"klt.track">>
    /\ iter = 0
    /\ blocks = <<>>
    /\ removed = {}

\* a frame that fails although faces are tracked: features were lost
C1_Witness ==
  /\ TrackReturned
  /\ result = "notEnoughPointError"
  /\ nbFaceUsed = 0
  /\ \E f \in 1..NbFaces : isTracked[f] /\ pts[f] # {}

\* C2: whenever track() fails (insufficient data, or an exception while the
\* residual system is built inside the loop), the stored pose cMo after the
\* call is the stored pose before the call.
C2_FailureKeepsPose ==
  (TrackReturned /\ result \in {"notEnoughPointError", "faceException"}) =>
    cMo = cMoPre

\* an exception after an iteration that moved the incremental pose
C2_Witness ==
  /\ TrackReturned
  /\ result = "faceException"
  /\ log = <<"klt.track", "vvs", "throw">>
  /\ Compose(ctTc0, c0Mo) # cMo

\* C3: init() fails when the model or the camera is not configured, and then
\* changes nothing: anchor, incremental pose, stored pose, the faces' tracked
\* flags and point sets stay, and the tracker's initTracking is not called.
C3_InitRefusedChangesNothing ==
  [][(lastOp' = "init" /\ (~modelInitialised \/ ~cameraInitialised)) =>
       /\ result' = "fatalError"
       /\ c0Mo' = c0Mo
       /\ ctTc0' = ctTc0
       /\ cMo' = cMo
       /\ isTracked' = isTracked
       /\ pts' = pts
       /\ isvisible' = isvisible
       /\ log' = <<>>]_vars

\* a refused init() with the model loaded, no camera, and a stored pose that
\* differs from the anchor
C3_Witness ==
  /\ lastOp = "init"
  /\ result = "fatalError"
  /\ modelInitialised
  /\ ~cameraInitialised
  /\ cMo # c0Mo

\* C4: track() called before the camera or the model is configured fails
\* with a configuration error.
C4_TrackUnconfiguredIsConfigurationError ==
  (TrackReturned /\ ~(modelInitialised /\ cameraInitialised)) =>
    result = "configurationError"

\* C5: after every successful init() and every successful track(), with or
\* without re-initialisation, cMo = ctTc0 * c0Mo; right after init() the
\* anchor is the current pose and the incremental pose is the identity.
C5_PoseIsIncrementTimesAnchor ==
  (pc = "idle" /\ result = "ok" /\ lastOp \in {"init", "track"}) =>
    /\ cMo = Compose(ctTc0, c0Mo)
    /\ (lastOp = "init" \/ log[Len(log)] = "klt.init") =>
         (c0Mo = cMo /\ ctTc0 = IdPose)

\* a frame tracked from a non-trivial anchor with a non-trivial increment
C5_Witness ==
  /\ TrackReturned
  /\ result = "ok"
  /\ log[Len(log)] = "visible"
  /\ ctTc0 # IdPose
  /\ c0Mo # IdPose
  /\ Compose(ctTc0, c0Mo) # Compose(c0Mo, ctTc0)

\* init() has returned normally
InitSucceeded == lastOp = "init" /\ result = "ok"

\* C6, as stated: after a successful init() every face visible at the anchor
\* is tracked and every face not visible is untracked.
C6_VisibleIffTracked ==
  InitSucceeded =>
    \A f \in 1..NbFaces : isTracked[f] = IsVisibleAt(f, c0Mo, angleAppears)

\* C6, amended: after a successful init() every face that is visible at the
\* anchor and whose projected polygon lies inside the image is tracked and
\* holds the features detected for it by this init(); every other face is
\* untracked.
C6_VisibleInsideIffTracked ==
  InitSucceeded =>
    \A f \in 1..NbFaces :
      /\ isTracked[f] = (IsVisibleAt(f, c0Mo, angleAppears) /\ f \in roiIn)
      /\ isTracked[f] => \E n \in DetectCounts : pts[f] = Detected(f, n)

\* one visible face inside the image and tracked, one visible face outside
\* and untracked
C6_Witness ==
  /\ InitSucceeded
  /\ \E f \in 1..NbFaces : isTracked[f] /\ pts[f] # {}
  /\ \E f \in 1..NbFaces :
       IsVisibleAt(f, c0Mo, angleAppears) /\ f \notin roiIn /\ ~isTracked[f]

\* C7: setPose(P) makes P the stored pose and leaves the anchor, the
\* incremental pose and every face's tracked flag and point set unchanged.
C7_SetPoseOnlySetsPose ==
  [][lastOp' = "setPose" =>
       /\ cMo' = poseArg'
       /\ c0Mo' = c0Mo
       /\ ctTc0' = ctTc0
       /\ isTracked' = isTracked
       /\ pts' = pts]_vars

\* setPose() on a tracker that holds points and whose anchor is another pose
C7_Witness ==
  /\ lastOp = "setPose"
  /\ cMo = poseArg
  /\ c0Mo # cMo
  /\ ctTc0 # IdPose
  /\ \E f \in 1..NbFaces : isTracked[f] /\ pts[f] # {}

\* the stages of a complete track(), in the order of the code
FullOrder == <<"klt.track", "vvs", "pose", "outliers", "visible", "klt.init">>

IsPrefix(a, b) == Len(a) <= Len(b) /\ \A i \in 1..Len(a) : a[i] = b[i]

\* C8: within one track() the stages come in the order pre-tracking,
\* refinement, post-tracking, optional re-initialisation: the tracker's track
\* is called exactly once and before any iteration, outlier removal and the
\* visibility update come only after the loop has ended and the pose was
\* stored, the tracker's initTracking is called at most once and only after
\* post-tracking.
C8_StagesInOrder ==
  lastOp = "track" =>
    /\ \/ IsPrefix(log, FullOrder)
       \/ log = <<"klt.track", "throw">>
       \/ log = <<"klt.track", "vvs", "throw">>
    /\ Len(log) >= 1
    /\ (iter > 0 \/ blocks # <<>>) => (Len(log) >= 2 /\ log[2] = "vvs")
    /\ pc = "vvs" => Len(log) <= 2
    /\ pc = "post" => log = <<"klt.track", "vvs", "pose">>
    /\ pc = "reinit" => log = <<"klt.track", "vvs", "pose", "outliers", "visible">>
    /\ removed # {} => (Len(log) >= 5 /\ log[4] = "outliers")

\* a frame that went through every stage, re-initialisation included
C8_Witness ==
  /\ TrackReturned
  /\ result = "ok"
  /\ log = FullOrder

\* the faces that are tracked and have enough points
EligibleFaces == {f \in 1..NbFaces : Eligible(f)}

\* the faces that have a block of rows
BlockFaces == {blocks[k].face : k \in 1..Len(blocks)}

\* C9: a face contributes to nbInfos and nbFaceUsed, to the residual system
\* and to outlier removal exactly when it is tracked and has enough points;
\* a tracked face with too few points is skipped in all three and keeps its
\* tracked flag through pre-tracking and the refinement.
C9_EligibleFacesContribute ==
  [][/\ (pc = "idle" /\ lastOp' = "track") =>
          /\ counted' = EligibleFaces'
          /\ nbFaceUsed' = Cardinality(EligibleFaces')
          /\ nbInfos' = SumPts(pts', EligibleFaces')
          /\ isTracked' = isTracked
     /\ (pc = "vvs" /\ result' = "running") =>
          /\ BlockFaces' = EligibleFaces
          /\ isTracked' = isTracked
     /\ pc = "vvs" => isTracked' = isTracked
     /\ pc = "post" => removed' = EligibleFaces]_vars

\* a frame completed with one face in use and one tracked face skipped for
\* lack of points
C9_Witness ==
  /\ lastOp = "track"
  /\ log = <<"klt.track", "vvs", "pose", "outliers", "visible">>
  /\ removed # {}
  /\ removed = counted
  /\ removed = BlockFaces
  /\ \E f \in 1..NbFaces : isTracked[f] /\ f \notin removed

\* C10: in every iteration the blocks of the eligible faces are contiguous
\* and disjoint, in face order, each of size 2 * (the face's number of
\* points), and cover exactly the 2*nbInfos rows of the residuals, the
\* Jacobian and the weights.
C10_BlocksPartitionRows ==
  (pc \in {"vvs", "post"} /\ Len(log) >= 2) =>
    /\ Len(blocks) = Cardinality(EligibleFaces)
    /\ \A k \in 1..Len(blocks) :
         /\ blocks[k].face \in EligibleFaces
         /\ blocks[k].size = 2 * NbPointsCur(blocks[k].face)
         /\ blocks[k].first = (IF k = 1 THEN 0
                               ELSE blocks[k - 1].first + blocks[k - 1].size)
         /\ k > 1 => blocks[k - 1].face < blocks[k].face
         /\ blocks[k].first + blocks[k].size <= 2 * nbInfos
    /\ Len(blocks) > 0 =>
         blocks[Len(blocks)].first + blocks[Len(blocks)].size = 2 * nbInfos
    /\ Len(w) = 2 * nbInfos

\* an iteration with the rows of two faces
C10_Witness ==
  /\ pc = "vvs"
  /\ iter > 0
  /\ Len(blocks) = 2
  /\ blocks[2].first = blocks[1].size
  /\ blocks[2].first > 0

\* postTracking has run in the last track()
PostDone == lastOp = "track" /\ Len(log) >= 5 /\ log[4] = "outliers"

\* C11: in post-tracking the sub-vector of w handed to each eligible face's
\* removeOutliers is the block of rows the face had in the refinement,
\* for every eligible face and whatever earlier faces removed in the pass.
C11_HandedWeightsAreFaceRows ==
  PostDone => handed = blocks

\* the final weights of the rows of block b
OwnWeights(b) == SubVec(w, b.first, b.size)

\* C12: outlier removal is idempotent: applying a face's removeOutliers
\* twice with the same weight vector retains the same set as applying it
\* once.
C12_RemoveOutliersIdempotent ==
  pc = "post" =>
    \A k \in 1..Len(blocks) :
      LET S == pts[blocks[k].face]
          sw == OwnWeights(blocks[k])
      IN RemoveOutliers(RemoveOutliers(S, sw), sw) = RemoveOutliers(S, sw)

\* the points of S whose two final weights in sw are not below the threshold
NotBelowThreshold(S, sw) ==
  {id \in S : /\ sw[2 * Rank(S, id) - 1] >= threshold_outlier
              /\ sw[2 * Rank(S, id)] >= threshold_outlier}

\* C13: after post-tracking an eligible face retains exactly those of its
\* correspondences whose final weight is not below the outlier threshold,
\* and a dropped correspondence does not come back before the face is
\* initialised again.
C13_RetainsExactlyInliers ==
  [][/\ pc = "post" =>
          \A k \in 1..Len(blocks) :
            pts'[blocks[k].face] =
              NotBelowThreshold(pts[blocks[k].face], OwnWeights(blocks[k]))
     /\ (pc # "reinit" /\ ~(lastOp' = "init" /\ result' = "ok")) =>
          \A f \in FaceRange : pts'[f] \subseteq pts[f]]_vars

\* C14: the refinement loop of a frame terminates: it performs at least one
\* and at most maxIter iterations, and stops before maxIter only when the
\* scaled difference of successive residual sums truncates to zero.
\* Every step of the loop adds one to iter, iter never passes maxIter, the
\* loop goes on only below maxIter with a non-zero scaled difference, and
\* while the loop runs a next step is always possible.
C14_LoopBounded ==
  /\ [](pc = "vvs" => (iter < maxIter /\ ENABLED (VVSIter \/ VVSLast)))
  /\ [][(pc = "vvs" /\ pc' \in {"vvs", "post"}) =>
          /\ iter' = iter + 1
          /\ iter' >= 1
          /\ iter' <= maxIter
          /\ pc' = "vvs" =>
               (iter' < maxIter /\ normRes' - normRes_1' \notin {-1, 0, 1})
          /\ (pc' = "post" /\ iter' < maxIter) =>
               (normRes' - normRes_1' \in {-1, 0, 1})]_vars

\* a loop left before the cap on a difference that is not zero but
\* truncates to zero
C14_Witness ==
  /\ pc = "post"
  /\ iter >= 1
  /\ iter < maxIter
  /\ normRes - normRes_1 \in {-1, 1}

\* post-tracking finds a face that was not visible and is visible at the
\* pose just computed
FaceAppears ==
  \E f \in 1..NbFaces : ~isvisible[f] /\ IsVisibleAt(f, cMo, angleAppears)

\* C15: if post-tracking finds a face that goes from not visible to visible
\* at the new pose, track() re-initialises in the same frame: on return the
\* anchor is the pose just computed, the incremental pose is the identity
\* and the tracked faces hold features of a fresh initTracking.
C15_AppearingFaceReInitialises ==
  [][/\ (pc = "post" /\ FaceAppears) => pc' = "reinit"
     /\ pc = "reinit" =>
          /\ pc' = "idle"
          /\ result' = "ok"
          /\ cMo' = cMo
          /\ c0Mo' = cMo
          /\ ctTc0' = IdPose
          /\ log' = Append(log, "klt.init")
          /\ \A f \in 1..NbFaces :
               isTracked'[f] => \E n \in DetectCounts : pts'[f] = Detected(f, n)]_vars

\* a frame that ended with a re-initialisation away from the first anchor,
\* with a face seeded
C15_Witness ==
  /\ TrackReturned
  /\ result = "ok"
  /\ log[Len(log)] = "klt.init"
  /\ c0Mo = cMo
  /\ c0Mo # IdPose
  /\ ctTc0 = IdPose
  /\ \E f \in 1..NbFaces : isTracked[f] /\ pts[f] = Detected(f, MaxPts)

\* C16: track() re-initialises only if post-tracking marked a face or the
\* usable correspondences fell below the floor; in every successful frame
\* where neither holds the anchor is unchanged and initTracking is not
\* called.  (UsableAfter: the correspondences of the faces still in use
\* after outlier removal.)
C16_ReInitOnlyWhenMarked ==
  [][LET UsableAfter == SumPts(pts', {f \in 1..NbFaces :
                                        isTracked[f] /\ Cardinality(pts'[f]) >= minNbPoint})
         Collapsed == UsableAfter < MinInfos
     IN /\ pc' = "reinit" => (pc = "post" /\ (FaceAppears \/ Collapsed))
        /\ (pc = "post" /\ ~FaceAppears /\ ~Collapsed) =>
             /\ pc' = "idle"
             /\ result' = "ok"
             /\ c0Mo' = c0Mo
             /\ log' = <<"klt.track", "vvs", "pose", "outliers", "visible">>
        /\ (lastOp' = "track" /\ pc # "reinit") => c0Mo' = c0Mo]_vars

\* a successful frame without re-initialisation: the pose moved, the anchor
\* stayed
C16_Witness ==
  /\ TrackReturned
  /\ result = "ok"
  /\ log = <<"klt.track", "vvs", "pose", "outliers", "visible">>
  /\ c0Mo # cMo
  /\ ctTc0 # IdPose

\* face f is at a boundary angle at the stored pose
AtBoundary(f) == AngleOf(f, cMo) \in {angleAppears, angleDisappears}

\* the flag of face f does not change again in a second frame at the pose of
\* this frame
SettlesAtPose(f) ==
  VisibleNext(NewVisible(f, cMo), f, cMo) = NewVisible(f, cMo)

C18_RankDeficiencyFails ==
  rankDeficient =>
    /\ pc = "idle"
    /\ result = "numericDegeneracyError"
    /\ cMo = cMoPre

\* the step is an initialisation that went through: init() called from
\* outside, or from track()
InitStep == pc = "reinit" \/ (lastOp' = "init" /\ result' = "ok")

JustInitialised ==
  \/ lastOp = "init" /\ result = "ok"
  \/ TrackReturned /\ result = "ok" /\ log[Len(log)] = "klt.init"

\* C20: after any (re-)initialisation every identifier held by a face,
\* tracked or not, comes from the most recent initTracking: a tracked face
\* holds the features detected for it, a face the initialisation left
\* untracked was given none and holds none.
C20_NoStaleIdentifiers ==
  JustInitialised =>
    \A f \in 1..NbFaces :
      IF isTracked[f] THEN \E n \in DetectCounts : pts[f] = Detected(f, n)
                      ELSE pts[f] = {}

C22_TestTrackingFailsBelowMinimum ==
  [][lastOp' = "testTracking" =>
       /\ result' \in {"fatalError", "ok"}
       /\ result' = "fatalError" <=>
            SumPts(pts, {f \in 1..NbFaces : isTracked[f]}) < MinTotalPoints
       /\ UNCHANGED <<modelInitialised, cameraInitialised, cMo, c0Mo, ctTc0,
                      angleAppears, angleDisappears, isTracked, isvisible,
                      pts, pc>>]_vars

\* testTracking() returns normally with exactly the minimum: two tracked
\* faces, one of which lost a point
C22_Witness ==
  /\ lastOp = "testTracking"
  /\ result = "ok"
  /\ SumPts(pts, {f \in 1..NbFaces : isTracked[f]}) = MinTotalPoints
  /\ \E f \in 1..NbFaces : isTracked[f] /\ ~HasEnoughPoints(f)

C30_ComposesExponential ==
  [][upd'.v # 0 =>
       /\ upd'.to = Compose(ExpMap(upd'.v), upd.to)
       /\ upd'.to \in Poses
       /\ upd'.stored \in Poses]_vars

\* C30: each refinement iteration replaces the incremental pose by
\* T * (previous incremental pose), where T is the inverse of the exponential
\* map of the solved 6-vector; the stored pose is the incremental pose times
\* the anchor, and both remain rigid transforms over any number of
\* iterations and re-initialisations.
C30_ComposesInverseExponential ==
  [][upd'.v # 0 =>
       /\ upd'.from = upd.to
       /\ Compose(ExpMap(upd'.v), upd'.to) = upd.to
       /\ upd'.stored = Compose(upd'.to, upd.anchor)
       /\ upd'.to \in Poses
       /\ upd'.stored \in Poses]_vars

\* an update by an increment whose exponential is not its own inverse, from
\* an incremental pose that is not the identity, with an anchor that does
\* not commute with it
C30_Witness ==
  /\ upd.v = 2
  /\ upd.from # IdPose
  /\ upd.to # Compose(ExpMap(2), upd.from)
  /\ upd.stored # Compose(upd.anchor, upd.to)

\* C27: the positioning velocity is always in [0, 100]: 10 after the
\* construction, changed only by a setPositioningVelocity(v) with
\* 0 <= v <= 100, every other v being refused.
C27_PositioningVelocityInRange ==
  /\ ~IsNaN(positioningVelocity)
  /\ 0 <= positioningVelocity
  /\ positioningVelocity <= MaxPositioningVelocity

\* a step in which the main thread calls op
MainCalls(op) == mpc = "idle" /\ tpc' = tpc /\ rop' = op

\* C26: setVelocity() raises wrongStateError when the robot is not in
\* velocity control, when the frame is not the articular one or when the
\* vector does not have 2 rows, and the call leaves the shared memory, the
\* desired velocity in it included, as it was.
C26_RefusedVelocityLeavesShm ==
  [][(/\ MainCalls("setVelocity")
      /\ \/ robotState # "STATE_VELOCITY_CONTROL"
         \/ rarg'.frame # "ARTICULAR_FRAME"
         \/ rarg'.rows # 2)
     => (rres' = "wrongStateError" /\ shm' = shm /\ mpc' = "idle")]_vars

\* a vector of three rows was refused in velocity control, in the articular
\* frame, while a desired velocity was stored
C26_Witness ==
  /\ rop = "setVelocity"
  /\ rres = "wrongStateError"
  /\ robotState = "STATE_VELOCITY_CONTROL"
  /\ rarg.frame = "ARTICULAR_FRAME"
  /\ rarg.rows = 3
  /\ shm.q_dot # Zeros
  /\ tpc = "loop"

\* C24: in velocity control getPosition() and getVelocity() return only
\* after the control thread has written a measure into the shared memory,
\* and they return what that thread wrote.
C24_ReturnsMeasures ==
  [][(/\ MainCalls("getPosition") \/ MainCalls("getVelocity")
      /\ robotState = "STATE_VELOCITY_CONTROL"
      /\ rres' = "ok")
     => got'.tag = "measured"]_vars

\* a step that is one turn of the control loop
TurnStep == tpc = "loop" /\ tpc' = "check"

\* the desired speed v drives an axis measured at m further beyond the soft
\* limit it has crossed
TowardsLimit(m, v) == InLimit(m) /\ m * v > 0

\* C23: in every turn of the control loop, an axis measured beyond a soft
\* limit while the desired velocity drives it towards that limit is
\* commanded a zero velocity by the turn, whatever the measures and the
\* desired velocities before.
C23_HaltsAtLimit ==
  [][TurnStep =>
       \A i \in Axes : TowardsLimit(mes_q'[i], shm.q_dot[i]) => q_dot'[i] = 0]_vars

\* the control thread has left its loop, has sent a zero velocity as the
\* last command the controller received, and has returned
ThreadEnded == tpc = "exited" /\ cmd = Zeros /\ cmdBy = "thread"

\* C25: when a control thread was created, the destructor, once it has
\* released the end-of-thread mutex, waits for it: the thread eventually
\* leaves its loop, sends a zero velocity as its last command and exits;
\* only then are the mutexes destroyed and does the destructor return,
\* which it eventually does.
C25_DestructorWaitsForThread ==
  /\ []((mpc \in {"destroy", "destroyed"} /\ controlThreadCreated) => ThreadEnded)
  /\ ((mpc = "join") ~> ThreadEnded)
  /\ ((mpc = "join") ~> (mpc = "destroyed"))

\* the robot was destroyed after its control thread had run with a desired
\* velocity and had halted the pan axis at a limit
C25_Witness ==
  /\ mpc = "destroyed"
  /\ controlThreadCreated
  /\ ThreadEnded
  /\ shm.q_dot # Zeros
  /\ force_halt[1]

\* C31: a re-initialisation inside track() leaves tracked every tracked
\* face that the visibility update of postTracking left visible in the same
\* frame, when the projected polygons lie inside the image.
C31_ReInitKeepsVisibleFaces ==
  [][(pc = "reinit" /\ ~InitRefused /\ roiIn' = VisibleAtAnchor)
     => \A f \in 1..NbFaces : (isvisible[f] /\ isTracked[f]) => isTracked'[f]]_vars

\* C32: the pose a track() stores is computed from the anchor, the
\* incremental pose and the frame only: line 325 stores ctTc0 * c0Mo
\* whatever pose was stored when track() was entered, and the rest of
\* track() keeps it; a pose given to setPose() before the call, with no
\* init() since, is discarded.
C32_TrackDiscardsStoredPose ==
  [][/\ (pc = "vvs" /\ pc' = "post") =>
          (cMo' = Compose(ctTc0', c0Mo) /\ c0Mo' = c0Mo)
     /\ (pc \in {"post", "reinit"} /\ pc' \in {"reinit", "idle"}) => cMo' = cMo]_vars

\* computeVVS has ended in a track() entered with the pose of a setPose()
\* that is neither the anchor nor the pose the frame before had produced
C32_Witness ==
  /\ pc = "post"
  /\ cMoPre \in SetPoseInputs
  /\ cMoPre # c0Mo
  /\ cMoPre # cMo
  /\ ctTc0 # IdPose
  /\ cMo = Compose(ctTc0, c0Mo)
  /\ Compose(ctTc0, cMoPre) # cMo

\* a step of the control thread
ThreadStep == tpc' # tpc /\ tpc # "none"

\* C33: the shared memory is read and written only by a thread that holds
\* vpShm_mutex, and vpShm_mutex is unlocked only by the thread that holds
\* it: the control thread holds it over lines 252-262 and setVelocity()
\* still holds it when it writes and unlocks; consequently no step of the
\* control thread changes the desired velocity in the shared memory.
C33_ShmUnderMutex ==
  [][/\ (ThreadStep /\ tpc \in {"measure", "write"}) => vpShm_mutex = "thread"
     /\ (mpc = "setVelocity" /\ mpc' = "idle") => vpShm_mutex = "main"
     /\ ThreadStep => shm'.q_dot = shm.q_dot]_vars

\* the turn of the loop that measures the positions mes_q' sends a velocity
\* vector to the controller (updateVelocity, lines 423-430)
TurnSends ==
  \E i \in Axes : Decide(InLimit(mes_q'[i]), shm.q_dot[i], prev_q_dot[i], q_dot[i],
                         force_halt[i], enable_limit[i]).update

\* the speed v drives an axis measured at m back from the soft limit it
\* has crossed
AwayFromLimit(m, v) == InLimit(m) /\ m * v < 0

\* C34: a turn of the control loop that sends velocities to the controller
\* sends, for an axis measured beyond a soft limit, either zero or a
\* velocity directed away from the limit that was crossed.
C34_OnlyAwayFromLimit ==
  [][(TurnStep /\ TurnSends) =>
       \A i \in Axes : (InLimit(mes_q'[i]) /\ q_dot'[i] # 0)
                          => AwayFromLimit(mes_q'[i], q_dot'[i])]_vars

\* in velocity control, axis i is halted beyond a soft limit while the
\* desired velocity in the shared memory is directed away from that limit
\* and the loop runs
HaltedAwayPending(i) ==
  /\ robotState = "STATE_VELOCITY_CONTROL"
  /\ tpc \in {"loop", "check"}
  /\ force_halt[i]
  /\ q_dot[i] = 0
  /\ AwayFromLimit(mes_q[i], shm.q_dot[i])

\* setVelocity() has just made the desired velocity of the halted axis i one
\* directed away from the limit: the loop has not read it yet
BecameAway(i) == HaltedAwayPending(i) /\ shm.q_dot[i] # prev_q_dot[i]

\* C35: an axis halted at a limit can be driven away from it: once the
\* desired velocity has become one directed away from the limit while the
\* axis is halted beyond it, the loop eventually applies the desired
\* velocity to the axis (unless the axis leaves the limit, the desired
\* velocity stops being directed away, or velocity control or the loop ends
\* before).
C35_CanLeaveLimit ==
  \A i \in Axes : BecameAway(i) ~> (q_dot[i] = shm.q_dot[i] \/ ~HaltedAwayPending(i))

\* the main thread is inside a setRobotState() that has not returned
InSetRobotState == rop = "setRobotState" /\ rres = "running"

\* C36: every call of setRobotState() returns, whatever the sequence of
\* states asked for, a second entry into velocity control included: a call
\* that waits for vpEndThread_mutex eventually gets it.
C36_SetRobotStateReturns == InSetRobotState ~> ~InSetRobotState

\* C37: once setRobotState() has left velocity control and halted the axes,
\* a turn of the control loop, which still runs, sends the controller no
\* velocity other than zero.
C37_NoCommandAfterStop ==
  [][(/\ TurnStep
      /\ TurnSends
      /\ robotState \in {"STATE_STOP", "STATE_POSITION_CONTROL"})
     => cmd' = Zeros]_vars

=============================================================================
